---- MODULE Spec2Model ----
(***************************************************************************)
(* Model of src/main.py: the link collector (compile_url_list), the case   *)
(* extractor (find_cases) and the main script that merges, sorts and       *)
(* exports the records.                                                    *)
(*                                                                         *)
(* A text is a sequence of characters.  The characters of the source's     *)
(* patterns are written by name, one sequence element per character:       *)
(*   que zhen bing li   = the case marker  (U+786E U+8BCA U+75C5 U+4F8B)   *)
(*   huo dong gui ji    = the trace label  (U+6D3B U+52A8 U+8F68 U+8FF9)   *)
(*   mi jie             = close contact    (U+5BC6 U+63A5)                 *)
(*   nan / nv           = male / female    (U+7537 / U+5973)               *)
(*   sui                = years old        (U+5C81)                        *)
(*   xian zhu           = residing at      (U+73B0 U+4F4F)                 *)
(*   stop               = full-width period (U+3002)                       *)
(*   yue ri yang zhou   = month, day, Yangzhou (U+6708 U+65E5 U+626C U+5DDE)*)
(*   NL                 = line feed;  sep = full-width comma               *)
(*   chao               = any other character (U+8D85)                     *)
(***************************************************************************)
EXTENDS Integers, Sequences, FiniteSets, TLC

VARIABLES
  pc,           \* position of the single control thread
  err,          \* the exception that ended the run ("" while none)
  anchorsSeen,  \* compile_url_list: the <a> nodes iterated so far
  urllist,      \* compile_url_list: urllist
  urls,         \* __main__: urls
  idx,          \* __main__: position of the for loop in urls (1-based)
  parsed,       \* the urls handed to create_soup by the for loop, in order
  all_cases,    \* __main__: all_cases
  cases,        \* find_cases: its local all_cases
  flag,         \* find_cases: flag
  spansSeen,    \* find_cases: the <span> texts iterated so far (last = text)
  traced,       \* this iteration executed line 87
  created,      \* this iteration executed line 131
  returned,     \* the lists returned by find_cases, one per document
  prevFlag,     \* flag as the previous call of find_cases left it
  budget,       \* number of <span> nodes the documents may still supply
  stdout,       \* blocks printed by print(case)
  csvFile       \* lines written to result.csv

vars == <<pc, err, anchorsSeen, urllist, urls, idx, parsed, all_cases, cases,
          flag, spansSeen, traced, created, returned, prevFlag, budget, stdout,
          csvFile>>

(* ------------------------------ bounds -------------------------------- *)

\* <span> nodes of the document in the single-document specification
MaxSpans == 4
\* <span> nodes over all documents of a run
MaxRunSpans == 4
\* <a> nodes of the entry document in a run
MaxAnchors == 2
\* <a> nodes of the entry document in the link-collector specification
MaxLinkAnchors == 3

(* ------------------------- characters and texts ------------------------ *)

Digit == {"0", "1", "2", "3", "4", "5", "6", "7", "8", "9"}

DigitVal ==
  "0" :> 0 @@ "1" :> 1 @@ "2" :> 2 @@ "3" :> 3 @@ "4" :> 4 @@
  "5" :> 5 @@ "6" :> 6 @@ "7" :> 7 @@ "8" :> 8 @@ "9" :> 9

CaseMarker == <<"que", "zhen", "bing", "li">>
TraceLabel == <<"huo", "dong", "gui", "ji">>
CloseContactLabel == <<"mi", "jie">>
AgeLabel == <<"sui">>
AddressMarker == <<"xian", "zhu">>
LinkSuffix == <<"ri", "yang", "zhou">>

Min(S) == CHOOSE x \in S : \A y \in S : x <= y
Max(S) == CHOOSE x \in S : \A y \in S : x >= y

\* int(): the value of a run of decimal digits
RECURSIVE ParseInt(_)
ParseInt(ds) ==
  IF ds = <<>> THEN 0
  ELSE 10 * ParseInt(SubSeq(ds, 1, Len(ds) - 1)) + DigitVal[ds[Len(ds)]]

\* '{}'.format(n) for an integer n
RECURSIVE NatToStr(_)
NatToStr(n) ==
  LET d == CHOOSE c \in Digit : DigitVal[c] = n % 10
  IN IF n < 10 THEN <<d>> ELSE NatToStr(n \div 10) \o <<d>>

IntToStr(n) == IF n < 0 THEN <<"-">> \o NatToStr(-n) ELSE NatToStr(n)

(* ------------------------- the re module ------------------------------- *)
(* A pattern is an operator P(s, i): the position just after the match of  *)
(* the pattern that starts at position i of s, or 0 when there is none.    *)

\* a literal at position i
LitAt(s, i, lit) ==
  /\ i + Len(lit) - 1 <= Len(s)
  /\ SubSeq(s, i, i + Len(lit) - 1) = lit

\* [0-9]* is greedy: the position after the longest run of digits from i
RECURSIVE DigitsEnd(_, _)
DigitsEnd(s, i) ==
  IF i <= Len(s) /\ s[i] \in Digit THEN DigitsEnd(s, i + 1) ELSE i

\* '[0-9]+' followed by a literal that starts with a non-digit: giving back
\* digits of the greedy run cannot help, the next character is a digit then
DigitsThenLit(s, i, lit) ==
  LET e == DigitsEnd(s, i)
  IN IF e > i /\ LitAt(s, e, lit) THEN e + Len(lit) ELSE 0

NoMatch == [found |-> FALSE, g0 |-> <<>>]

\* '[0-9]+'
PNumber(s, i) == IF DigitsEnd(s, i) > i THEN DigitsEnd(s, i) ELSE 0

\* case marker followed by '[0-9]+'
PCase(s, i) ==
  IF LitAt(s, i, CaseMarker) THEN PNumber(s, i + Len(CaseMarker)) ELSE 0

\* '[0-9]+' followed by the close-contact label
PCloseContact(s, i) == DigitsThenLit(s, i, CloseContactLabel)

\* 'nan|nv'
PGender(s, i) == IF i <= Len(s) /\ s[i] \in {"nan", "nv"} THEN i + 1 ELSE 0

\* '[0-9]+' followed by the age label
PAge(s, i) == DigitsThenLit(s, i, AgeLabel)

\* address marker, '(.*?)', full stop: the lazy group ends at the first
\* full stop, and '.' matches no line feed
PAddress(s, i) ==
  IF ~LitAt(s, i, AddressMarker) THEN 0
  ELSE LET from == i + Len(AddressMarker)
           ends == {j \in from..Len(s) :
                      /\ s[j] = "stop"
                      /\ \A k \in from..(j - 1) : s[k] # "NL"}
       IN IF ends = {} THEN 0 ELSE Min(ends) + 1

\* the trace label
PTrace(s, i) == IF LitAt(s, i, TraceLabel) THEN i + Len(TraceLabel) ELSE 0

\* '[0-9]+' "yue" '[0-9]+' "ri" "yang" "zhou"
PLink(s, i) ==
  LET m == DigitsThenLit(s, i, <<"yue">>)
  IN IF m = 0 THEN 0 ELSE DigitsThenLit(s, m, LinkSuffix)

\* the compiled pattern named p, tried at position i of s
PatEnd(p, s, i) ==
  CASE p = "number" -> PNumber(s, i)
    [] p = "case" -> PCase(s, i)
    [] p = "close_contact" -> PCloseContact(s, i)
    [] p = "gender" -> PGender(s, i)
    [] p = "age" -> PAge(s, i)
    [] p = "address" -> PAddress(s, i)
    [] p = "trace" -> PTrace(s, i)
    [] p = "link" -> PLink(s, i)

\* re.match(p, s): the match at the start of s
ReMatch(p, s) ==
  IF PatEnd(p, s, 1) # 0
  THEN [found |-> TRUE, g0 |-> SubSeq(s, 1, PatEnd(p, s, 1) - 1)]
  ELSE NoMatch

\* re.search(p, s): the match at the leftmost position that has one
ReSearch(p, s) ==
  LET hits == {i \in 1..Len(s) : PatEnd(p, s, i) # 0}
  IN IF hits = {} THEN NoMatch
     ELSE LET i == Min(hits)
          IN [found |-> TRUE, g0 |-> SubSeq(s, i, PatEnd(p, s, i) - 1)]

(* ------------------------------ Case ----------------------------------- *)

\* Case(): the defaults of __init__
Case ==
  [case_id |-> -1, close_contact_id |-> -1, gender |-> -1, age |-> -1,
   address |-> <<>>, trace |-> <<>>]

\* is_empty without the test of trace
is_empty_ignoring_trace(c) ==
  /\ c.gender = -1
  /\ c.close_contact_id = -1
  /\ c.age = -1
  /\ c.address = <<>>

\* Case.is_empty
is_empty(c) ==
  /\ c.gender = -1
  /\ c.close_contact_id = -1
  /\ c.age = -1
  /\ c.address = <<>>
  /\ c.trace = <<>>

\* Case.csv
csv(c) ==
  IntToStr(c.case_id) \o <<",">> \o IntToStr(c.gender) \o <<",">> \o
  IntToStr(c.age) \o <<",">> \o c.address \o <<",">> \o
  IntToStr(c.close_contact_id) \o <<",">> \o c.trace \o <<"NL">>

\* Case.__str__
str(c) ==
  <<"Confirmed case #">> \o IntToStr(c.case_id) \o
  <<"NL", "TAB", "Gender: ">> \o IntToStr(c.gender) \o
  <<"NL", "TAB", "Age: ">> \o IntToStr(c.age) \o
  <<"NL", "TAB", "Home address: ">> \o c.address \o
  <<"NL", "TAB", "Close contact of case #">> \o IntToStr(c.close_contact_id) \o
  <<"NL", "TAB", "Activities: ">> \o c.trace \o <<"NL">>

CsvHeader ==
  <<"case_id", ",", "gender", ",", "age", ",", "address", ",",
    "close_contact", ",", "trace", "NL">>

(* -------------------------- extract_number ----------------------------- *)

\* re.search('[0-9]+', s) is None: d[i] raises TypeError
ExtractRaises(s) == ~ReSearch("number", s).found

\* extract_number taking the last run of digits of s instead of the first
extract_last_number(s) ==
  LET hits == {i \in 1..Len(s) : PatEnd("number", s, i) # 0}
  IN ParseInt(SubSeq(s, Max(hits), PatEnd("number", s, Max(hits)) - 1))

\* int(d[0])
extract_number(s) == ParseInt(ReSearch("number", s).g0)


\* lines 91-130 giving up on the record's later fields when no gender is found
NewCaseStopAtGender(text) ==
  LET ccres == ReSearch("close_contact", text)
      gres == ReSearch("gender", text)
      ageres == ReSearch("age", text)
      ares == ReSearch("address", text)
      head == [Case EXCEPT
                 !.case_id = extract_number(text),
                 !.close_contact_id =
                   IF ccres.found THEN extract_number(ccres.g0) ELSE -1]
  IN IF ~gres.found THEN head
     ELSE [head EXCEPT
             !.gender = IF gres.g0 = <<"nan">> THEN 0 ELSE 1,
             !.age = IF ~ageres.found THEN -1 ELSE extract_number(ageres.g0),
             !.address =
               IF ~ares.found THEN <<>>
               ELSE SubSeq(ares.g0, 3, Len(ares.g0) - 1)]

\* lines 91-130: the record built from the text of a boundary node
NewCase(text) ==
  LET ccres == ReSearch("close_contact", text)
      gres == ReSearch("gender", text)
      ageres == ReSearch("age", text)
      ares == ReSearch("address", text)
  IN [Case EXCEPT
        !.case_id = extract_number(text),
        !.close_contact_id =
          IF ccres.found THEN extract_number(ccres.g0) ELSE -1,
        !.gender =
          IF ~gres.found THEN -1 ELSE IF gres.g0 = <<"nan">> THEN 0 ELSE 1,
        !.age = IF ~ageres.found THEN -1 ELSE extract_number(ageres.g0),
        !.address =
          IF ~ares.found THEN <<>>
          ELSE SubSeq(ares.g0, 3, Len(ares.g0) - 1)]

\* one of the extract_number calls of lines 92, 96, 119 raises
NewCaseRaises(text) ==
  LET ccres == ReSearch("close_contact", text)
      ageres == ReSearch("age", text)
  IN \/ ExtractRaises(text)
     \/ ccres.found /\ ExtractRaises(ccres.g0)
     \/ ageres.found /\ ExtractRaises(ageres.g0)

(* -------------------------------- sort --------------------------------- *)

\* an insertion that puts a record before the records of equal key
InsertBeforeEqual(sorted, c) ==
  LET k == Cardinality({i \in 1..Len(sorted) : sorted[i].case_id < c.case_id})
  IN SubSeq(sorted, 1, k) \o <<c>> \o SubSeq(sorted, k + 1, Len(sorted))

\* list.sort is stable: a record goes after the records whose key is not
\* greater than its own
InsertByKey(sorted, c) ==
  LET k == Cardinality({i \in 1..Len(sorted) : sorted[i].case_id <= c.case_id})
  IN SubSeq(sorted, 1, k) \o <<c>> \o SubSeq(sorted, k + 1, Len(sorted))

\* all_cases.sort(key=lambda case: case.case_id)
RECURSIVE SortByCaseId(_)
SortByCaseId(s) ==
  IF s = <<>> THEN <<>>
  ELSE InsertByKey(SortByCaseId(SubSeq(s, 1, Len(s) - 1)), s[Len(s)])

(* ------------------------------ inputs --------------------------------- *)

start_url == "tDD81B2sG72wznffKQFmmQ"

\* a['href'] of an <a> node without the attribute raises KeyError
NoHref == "<no href>"

LinkText == <<"8", "yue", "1", "2", "ri", "yang", "zhou", "chao">>

\* <a> nodes of the entry document in a run
RunAnchors ==
  { [text |-> LinkText, href |-> "u1"],
    [text |-> LinkText, href |-> "u2"],
    [text |-> <<"chao">>, href |-> "u1"],
    [text |-> LinkText, href |-> NoHref] }

\* <a> nodes of the entry document in the link-collector specification
LinkAnchors ==
  { [text |-> t, href |-> h] :
      t \in { LinkText,
              <<"1", "0", "yue", "3", "ri", "yang", "zhou">>,
              <<"yue", "1", "ri", "yang", "zhou">>,
              <<"8", "yue", "ri", "yang", "zhou">>,
              <<"8", "yue", "1", "ri", "yang">>,
              <<"chao", "8", "yue", "1", "ri", "yang", "zhou">>,
              <<>> },
      h \in {"u1", "u2", NoHref} }

\* <span> texts of the documents of a run
RunTexts ==
  { CaseMarker \o <<"2", "sep", "nan">>,
    CaseMarker \o <<"1">>,
    TraceLabel,
    <<"chao">> }

\* <span> texts of the document in the single-document specification
CaseTexts ==
  { CaseMarker \o <<"1", "2", "sep", "nan", "sep", "3", "mi", "jie">>,
    CaseMarker \o <<"0", "7">>,
    CaseMarker,
    <<"chao">> \o CaseMarker \o <<"3">>,
    TraceLabel,
    TraceLabel \o <<"chao">>,
    <<"chao">> \o TraceLabel,
    <<"chao", "5">>,
    <<>> }

\* boundary texts with every combination of the four optional fields
FieldTexts ==
  { CaseMarker \o id \o cc \o g \o a \o ad :
      id \in { <<"1", "3">>, <<"0", "7">> },
      cc \in { <<>>, <<"sep", "3", "mi", "jie">>, <<"sep", "mi", "jie">>,
               <<"mi", "jie">> },
      g \in { <<>>, <<"sep", "nan">>, <<"sep", "nv", "nan">> },
      a \in { <<>>, <<"sep", "4", "5", "sui">>, <<"sep", "sui">> },
      ad \in { <<>>,
               <<"sep", "xian", "zhu", "yang", "stop">>,
               <<"sep", "xian", "zhu", "stop">>,
               <<"sep", "xian", "zhu", "yang">>,
               <<"sep", "xian", "zhu", "yang", "NL", "zhou", "stop">>,
               <<"sep", "xian", "zhu", "yang", "NL", "xian", "zhu", "zhou",
                 "stop">>,
               <<"sep", "xian", "zhu", "nv", "5", "sui", "stop", "chao",
                 "stop">> } }
  \cup { TraceLabel, <<"chao">>, CaseMarker }

(* ------------------------------ actions -------------------------------- *)

\* the text of the <span> node of the current iteration (line 85)
text == spansSeen[Len(spansSeen)]

Abort(e) == pc' = "aborted" /\ err' = e

\* urlopen raises inside create_soup (line 50), at line 150 or line 168
CreateSoupFails ==
  /\ \/ pc = "main"
     \/ pc = "for_url" /\ idx <= Len(urls)
  /\ Abort("URLError")
  /\ parsed' = IF pc = "for_url" THEN Append(parsed, urls[idx]) ELSE parsed
  /\ UNCHANGED <<anchorsSeen, urllist, urls, idx, all_cases, cases, flag,
                 spansSeen, traced, created, returned, prevFlag, budget, stdout, csvFile>>

\* lines 163, 149-150: compile_url_list is entered and the entry document loads
CompileStart ==
  /\ pc = "main"
  /\ pc' = "for_a"
  /\ urllist' = <<>>
  /\ UNCHANGED <<err, anchorsSeen, urls, idx, parsed, all_cases, cases, flag,
                 spansSeen, traced, created, returned, prevFlag, budget, stdout, csvFile>>

\* line 156 skipping an href that is in the list already
CollectDistinct(l, href) ==
  IF \E i \in 1..Len(l) : l[i] = href THEN l ELSE Append(l, href)

\* line 156: urllist.append(href)
Collect(l, href) == Append(l, href)

\* lines 151-156: one <a> node of the entry document, of at most n
ForAnchor(A, n) ==
  /\ pc = "for_a"
  /\ Len(anchorsSeen) < n
  /\ \E a \in A :
       /\ anchorsSeen' = Append(anchorsSeen, a)
       /\ IF ReMatch("link", a.text).found
          THEN IF a.href = NoHref
               THEN Abort("KeyError") /\ UNCHANGED urllist
               ELSE urllist' = Collect(urllist, a.href)
                    /\ UNCHANGED <<pc, err>>
          ELSE UNCHANGED <<pc, err, urllist>>
  /\ UNCHANGED <<urls, idx, parsed, all_cases, cases, flag, spansSeen, traced,
                 created, returned, prevFlag, budget, stdout, csvFile>>

\* lines 157-158: the loop is over, urllist is returned
CompileReturn ==
  /\ pc = "for_a"
  /\ pc' = "compiled"
  /\ UNCHANGED <<err, anchorsSeen, urllist, urls, idx, parsed, all_cases,
                 cases, flag, spansSeen, traced, created, returned, prevFlag, budget,
                 stdout, csvFile>>

\* line 164 putting the entry document first
PrependStart(l) == <<start_url>> \o l

\* line 164: urls.append(start_url)
AppendStart(l) == Append(l, start_url)

\* lines 163-165
MainInit ==
  /\ pc = "compiled"
  /\ urls' = AppendStart(urllist)
  /\ all_cases' = <<>>
  /\ idx' = 1
  /\ pc' = "for_url"
  /\ UNCHANGED <<err, anchorsSeen, urllist, parsed, cases, flag, spansSeen,
                 traced, created, returned, prevFlag, budget, stdout, csvFile>>

\* line 82 missing: the flag of the previous call is still there
FlagCarried == flag

\* line 82: flag = False
FlagAtEntry == FALSE

\* lines 166-169, 78-82: the next url loads and find_cases is entered
ForUrl ==
  /\ pc = "for_url"
  /\ idx <= Len(urls)
  /\ parsed' = Append(parsed, urls[idx])
  /\ cases' = <<>>
  /\ flag' = FlagAtEntry
  /\ spansSeen' = <<>>
  /\ traced' = FALSE
  /\ created' = FALSE
  /\ prevFlag' = flag
  /\ pc' = "for_span"
  /\ UNCHANGED <<err, anchorsSeen, urllist, urls, idx, all_cases, returned,
                 budget, stdout, csvFile>>

\* lines 83-85: the next <span> node of the document
ForSpan(T) ==
  /\ pc = "for_span"
  /\ budget > 0
  /\ \E t \in T : spansSeen' = Append(spansSeen, t)
  /\ budget' = budget - 1
  /\ traced' = FALSE
  /\ created' = FALSE
  /\ pc' = "if_flag"
  /\ UNCHANGED <<err, anchorsSeen, urllist, urls, idx, parsed, all_cases,
                 cases, flag, returned, prevFlag, stdout, csvFile>>

\* line 87 indexing the first record, all_cases[0]
TraceTargetFirst(l) == 1

\* line 87: all_cases[-1] is the last record of the list
TraceTarget(l) == Len(l)

\* line 86 as 'if flag and all_cases': no IndexError
IndexNeverRaises(l) == FALSE

\* line 87: all_cases[-1] raises IndexError on the empty list
IndexRaises(l) == l = <<>>

\* lines 86-88
IfFlag ==
  /\ pc = "if_flag"
  /\ IF flag
     THEN IF IndexRaises(cases)
          THEN Abort("IndexError") /\ UNCHANGED <<cases, flag, traced>>
          ELSE /\ cases' = [cases EXCEPT ![TraceTarget(cases)].trace = text]
               /\ flag' = FALSE
               /\ traced' = TRUE
               /\ pc' = "if_case"
               /\ UNCHANGED err
     ELSE pc' = "if_case" /\ UNCHANGED <<err, cases, flag, traced>>
  /\ UNCHANGED <<anchorsSeen, urllist, urls, idx, parsed, all_cases,
                 spansSeen, created, returned, prevFlag, budget, stdout, csvFile>>

\* line 89 as an elif of line 86: no boundary test on a node taken as a trace
IsCaseNodeElif(t) == ~traced /\ ReMatch("case", t).found

\* line 89: the condition of the second if
IsCaseNode(t) == ReMatch("case", t).found

\* lines 89-131
IfCase ==
  /\ pc = "if_case"
  /\ IF IsCaseNode(text)
     THEN IF NewCaseRaises(text)
          THEN Abort("TypeError") /\ UNCHANGED <<cases, created>>
          ELSE /\ cases' = Append(cases, NewCase(text))
               /\ created' = TRUE
               /\ pc' = "if_trace"
               /\ UNCHANGED err
     ELSE pc' = "if_trace" /\ UNCHANGED <<err, cases, created>>
  /\ UNCHANGED <<anchorsSeen, urllist, urls, idx, parsed, all_cases, flag,
                 spansSeen, traced, returned, prevFlag, budget, stdout, csvFile>>

\* line 132: the condition of the third if
IsTraceNode(t) == ReMatch("trace", t).found

\* lines 132-133
IfTrace ==
  /\ pc = "if_trace"
  /\ flag' = IF IsTraceNode(text) THEN TRUE ELSE flag
  /\ pc' = "for_span"
  /\ UNCHANGED <<err, anchorsSeen, urllist, urls, idx, parsed, all_cases,
                 cases, spansSeen, traced, created, returned, prevFlag, budget, stdout,
                 csvFile>>

\* lines 136-137, 169-171: the loop is over, the list is returned and its
\* records are appended to the script's all_cases
FindCasesReturn ==
  /\ pc = "for_span"
  /\ returned' = Append(returned, cases)
  /\ all_cases' = all_cases \o cases
  /\ idx' = idx + 1
  /\ pc' = "for_url"
  /\ UNCHANGED <<err, anchorsSeen, urllist, urls, parsed, cases, flag,
                 spansSeen, traced, created, prevFlag, budget, stdout,
                 csvFile>>

\* line 172
Sort ==
  /\ pc = "for_url"
  /\ idx > Len(urls)
  /\ all_cases' = SortByCaseId(all_cases)
  /\ pc' = "print"
  /\ UNCHANGED <<err, anchorsSeen, urllist, urls, idx, parsed, cases, flag,
                 spansSeen, traced, created, returned, prevFlag, budget, stdout, csvFile>>

\* the records the two export loops let through (lines 174, 179)
Exported(l) == SelectSeq(l, LAMBDA c : ~is_empty(c))

\* lines 173-175
PrintCases ==
  /\ pc = "print"
  /\ stdout' = [i \in 1..Len(Exported(all_cases)) |-> str(Exported(all_cases)[i])]
  /\ pc' = "write"
  /\ UNCHANGED <<err, anchorsSeen, urllist, urls, idx, parsed, all_cases,
                 cases, flag, spansSeen, traced, created, returned, prevFlag, budget,
                 csvFile>>

\* lines 176-181
WriteCsv ==
  /\ pc = "write"
  /\ csvFile' = <<CsvHeader>> \o
       [i \in 1..Len(Exported(all_cases)) |-> csv(Exported(all_cases)[i])]
  /\ pc' = "done"
  /\ UNCHANGED <<err, anchorsSeen, urllist, urls, idx, parsed, all_cases,
                 cases, flag, spansSeen, traced, created, returned, prevFlag, budget,
                 stdout>>

(* --------------------------- specifications ---------------------------- *)

\* a whole run of the script
Init ==
  /\ pc = "main"
  /\ err = ""
  /\ anchorsSeen = <<>>
  /\ urllist = <<>>
  /\ urls = <<>>
  /\ idx = 1
  /\ parsed = <<>>
  /\ all_cases = <<>>
  /\ cases = <<>>
  /\ flag = FALSE
  /\ spansSeen = <<>>
  /\ traced = FALSE
  /\ created = FALSE
  /\ returned = <<>>
  /\ prevFlag = FALSE
  /\ budget = MaxRunSpans
  /\ stdout = <<>>
  /\ csvFile = <<>>

Next ==
  \/ CreateSoupFails
  \/ CompileStart
  \/ ForAnchor(RunAnchors, MaxAnchors)
  \/ CompileReturn
  \/ MainInit
  \/ ForUrl
  \/ ForSpan(RunTexts)
  \/ IfFlag
  \/ IfCase
  \/ IfTrace
  \/ FindCasesReturn
  \/ Sort
  \/ PrintCases
  \/ WriteCsv

Spec == Init /\ [][Next]_vars

\* compile_url_list on an entry document
NextLinks ==
  \/ CreateSoupFails
  \/ CompileStart
  \/ ForAnchor(LinkAnchors, MaxLinkAnchors)
  \/ CompileReturn

SpecLinks == Init /\ [][NextLinks]_vars

\* find_cases on the entry document of a run that found no link
InitCases ==
  /\ pc = "for_span"
  /\ err = ""
  /\ anchorsSeen = <<>>
  /\ urllist = <<>>
  /\ urls = <<start_url>>
  /\ idx = 1
  /\ parsed = <<start_url>>
  /\ all_cases = <<>>
  /\ cases = <<>>
  /\ flag = FALSE
  /\ spansSeen = <<>>
  /\ traced = FALSE
  /\ created = FALSE
  /\ returned = <<>>
  /\ prevFlag = FALSE
  /\ budget = MaxSpans
  /\ stdout = <<>>
  /\ csvFile = <<>>

NextCases ==
  \/ ForSpan(CaseTexts)
  \/ IfFlag
  \/ IfCase
  \/ IfTrace
  \/ FindCasesReturn

SpecCases == InitCases /\ [][NextCases]_vars

\* the body of the loop of find_cases on a first node
InitFields ==
  /\ pc = "if_flag"
  /\ err = ""
  /\ anchorsSeen = <<>>
  /\ urllist = <<>>
  /\ urls = <<start_url>>
  /\ idx = 1
  /\ parsed = <<start_url>>
  /\ all_cases = <<>>
  /\ cases = <<>>
  /\ flag = FALSE
  /\ \E t \in FieldTexts : spansSeen = <<t>>
  /\ traced = FALSE
  /\ created = FALSE
  /\ returned = <<>>
  /\ prevFlag = FALSE
  /\ budget = 0
  /\ stdout = <<>>
  /\ csvFile = <<>>

NextFields ==
  \/ IfFlag
  \/ IfCase
  \/ IfTrace

SpecFields == InitFields /\ [][NextFields]_vars

(* ------------------- the statements, in their own terms ---------------- *)

\* the text starts with the case marker followed by a digit
StartsWithBoundary(t) ==
  /\ Len(t) > Len(CaseMarker)
  /\ \A k \in 1..Len(CaseMarker) : t[k] = CaseMarker[k]
  /\ t[Len(CaseMarker) + 1] \in Digit

\* the number N written after the case marker
BoundaryNumber(t) ==
  LET from == Len(CaseMarker) + 1
      last == Max({j \in from..Len(t) : \A k \in from..j : t[k] \in Digit})
  IN ParseInt(SubSeq(t, from, last))

\* the text starts with the trace label
StartsWithLabel(t) ==
  /\ Len(t) >= Len(TraceLabel)
  /\ \A k \in 1..Len(TraceLabel) : t[k] = TraceLabel[k]

\* the boundary nodes among the first p nodes of S
BoundariesUpTo(S, p) == {q \in 1..p : StartsWithBoundary(S[q])}

\* the case_id values of a list of records
CaseIds(l) == [i \in 1..Len(l) |-> l[i].case_id]

\* every iteration of the loop of find_cases that has started has ended
BetweenNodes == pc \in {"for_span", "for_url", "print", "write", "done"}

\* find_cases has returned for the document spansSeen
Returned == pc \in {"for_url", "print", "write", "done"} /\ returned # <<>>

\* C1: whenever find_cases returns, the case_id values of the returned
\* records are, in order and in number, the numbers N of the nodes of the
\* document that start with the boundary marker, and none is -1.
C1_BoundaryOrder ==
  BetweenNodes =>
    LET B == SelectSeq(spansSeen, StartsWithBoundary)
    IN /\ CaseIds(cases) = [i \in 1..Len(B) |-> BoundaryNumber(B[i])]
       /\ \A i \in 1..Len(cases) : cases[i].case_id # -1
       /\ Returned => returned[Len(returned)] = cases

\* C1 witness: a returned list of two records whose numbers are out of
\* numeric order, from a document that also holds other nodes.
C1_Witness ==
  /\ Returned
  /\ Len(spansSeen) > Len(cases)
  /\ Len(returned[1]) = 2
  /\ returned[1][1].case_id > returned[1][2].case_id

\* the trace the statement gives record k of the document S: the text of the
\* node after the last label that follows boundary k and precedes the next
\* boundary, or the empty text when there is no such label
TraceOf(S, k) ==
  LET ps == {p \in 1..(Len(S) - 1) :
               StartsWithLabel(S[p]) /\ Cardinality(BoundariesUpTo(S, p)) = k}
  IN IF ps = {} THEN <<>> ELSE S[Max(ps) + 1]

\* C2: the node after a label node, whatever it holds, becomes the trace of
\* the record that is last at that moment and clears the flag; in the end a
\* record holds the text of the node after the last label processed for it.
C2_TraceAttach ==
  /\ ( /\ pc = "if_case"
       /\ Len(spansSeen) >= 2
       /\ StartsWithLabel(spansSeen[Len(spansSeen) - 1])
       /\ BoundariesUpTo(spansSeen, Len(spansSeen) - 1) # {} )
     => /\ Len(cases) = Cardinality(BoundariesUpTo(spansSeen, Len(spansSeen) - 1))
        /\ cases[Len(cases)].trace = text
        /\ ~flag
  /\ BetweenNodes =>
       \A k \in 1..Len(cases) : cases[k].trace = TraceOf(spansSeen, k)

\* C2 witness: two labels after the first of two records, the node after the
\* second label is that record's trace.
C2_Witness ==
  /\ Returned
  /\ Len(spansSeen) = 4
  /\ StartsWithBoundary(spansSeen[1])
  /\ StartsWithLabel(spansSeen[2])
  /\ StartsWithLabel(spansSeen[3])
  /\ StartsWithBoundary(spansSeen[4])
  /\ cases[1].trace = spansSeen[4]

\* C8 as stated: no node both supplies a trace and creates a record.
C8_Original == ~(traced /\ created)

\* C8 amended: a node creates a record exactly when its text starts with the
\* boundary marker, also when the same node was consumed as a trace; the
\* text then is the trace of the record that was last before the node, and
\* the record the node creates starts with an empty trace.
C8_BothApply ==
  /\ created <=>
       /\ pc \in {"if_trace", "for_span", "for_url", "print", "write", "done"}
       /\ spansSeen # <<>>
       /\ StartsWithBoundary(text)
  /\ (traced /\ created) =>
       /\ Len(cases) >= 2
       /\ cases[Len(cases) - 1].trace = text
       /\ cases[Len(cases)].trace = <<>>

\* C8 witness: a node consumed as a trace has created a record.
C8_Witness == traced /\ created /\ pc = "if_trace"

\* the characters of lit stand at positions p, p+1, ... of t
HasAt(t, p, lit) ==
  /\ p >= 1
  /\ p + Len(lit) - 1 <= Len(t)
  /\ \A k \in 1..Len(lit) : t[p + k - 1] = lit[k]

\* the digit run that stands right before the first occurrence of lit that
\* has a digit before it, as a number; -1 when there is no such occurrence
NumberBefore(t, lit) ==
  LET ps == {p \in 2..Len(t) : HasAt(t, p, lit) /\ t[p - 1] \in Digit}
  IN IF ps = {} THEN -1
     ELSE LET p == Min(ps)
              from == Min({i \in 1..(p - 1) : \A k \in i..(p - 1) : t[k] \in Digit})
          IN ParseInt(SubSeq(t, from, p - 1))

\* 0 or 1 by the first "nan" or "nv" of t, -1 when t holds neither
GenderOf(t) ==
  LET ps == {p \in 1..Len(t) : t[p] = "nan" \/ t[p] = "nv"}
  IN IF ps = {} THEN -1 ELSE IF t[Min(ps)] = "nan" THEN 0 ELSE 1

\* the pairs (i, j): the address marker stands at i and a full stop at j
\* after it; with oneLine, no line feed stands between the two
AddressSpans(t, oneLine) ==
  {ij \in (1..Len(t)) \X (1..Len(t)) :
     /\ HasAt(t, ij[1], AddressMarker)
     /\ ij[2] >= ij[1] + Len(AddressMarker)
     /\ t[ij[2]] = "stop"
     /\ oneLine =>
          \A k \in (ij[1] + Len(AddressMarker))..(ij[2] - 1) : t[k] # "NL"}

\* the text between the first address marker of a span and the next full
\* stop; the empty text when there is no span
AddressOf(t, oneLine) ==
  LET spans == AddressSpans(t, oneLine)
  IN IF spans = {} THEN <<>>
     ELSE LET i == Min({ij[1] : ij \in spans})
              j == Min({ij[2] : ij \in {x \in spans : x[1] = i}})
          IN SubSeq(t, i + Len(AddressMarker), j - 1)

\* the record the statement gives a boundary text
FieldsOf(t, oneLine) ==
  [case_id |-> BoundaryNumber(t),
   close_contact_id |-> NumberBefore(t, CloseContactLabel),
   gender |-> GenderOf(t),
   age |-> NumberBefore(t, AgeLabel),
   address |-> AddressOf(t, oneLine),
   trace |-> <<>>]

\* the node of the first iteration has passed line 131
FirstNodeDone == pc \in {"if_trace", "for_span"} /\ Len(spansSeen) = 1

\* C3 as stated: each field of the record of a boundary node is decided by
\* its own pattern, the address being the text between the address marker
\* and the next full stop whenever such a span occurs in the text.
C3_Original ==
  (FirstNodeDone /\ StartsWithBoundary(text)) =>
    cases = <<FieldsOf(text, FALSE)>>

\* C3 amended: as stated, the address being the text between the first
\* address marker that has a full stop after it on the same line and that
\* full stop (a span broken by a line feed is no match, address is ''); in
\* every combination of found and missing fields the record is appended.
C3_FieldsIndependent ==
  FirstNodeDone =>
    IF StartsWithBoundary(text)
    THEN cases = <<FieldsOf(text, TRUE)>>
    ELSE cases = <<>>

\* C3 witness: a record appended with close contact and age found, gender
\* missing and the address span broken by a line feed.
C3_Witness ==
  /\ FirstNodeDone
  /\ created
  /\ cases[1].close_contact_id = 3
  /\ cases[1].gender = -1
  /\ cases[1].age = 45
  /\ cases[1].address = <<>>
  /\ AddressSpans(text, FALSE) # {}

\* the text starts with digits, "yue", digits, "ri yang zhou"
IsLinkText(t) ==
  \E i \in 1..Len(t), j \in 1..Len(t) :
    /\ \A k \in 1..i : t[k] \in Digit
    /\ HasAt(t, i + 1, <<"yue">>)
    /\ j >= i + 2
    /\ \A k \in (i + 2)..j : t[k] \in Digit
    /\ HasAt(t, j + 1, LinkSuffix)

\* an <a> node whose text matches and that has no href
BrokenLink(a) == IsLinkText(a.text) /\ a.href = NoHref

\* C7: compile_url_list returns the href of every anchor whose text starts
\* with the date label, in document order, a repeated href once per matching
\* anchor, nothing for the other anchors; a matching anchor without href
\* ends the call with KeyError and no list is returned.
C7_Links ==
  /\ pc \in {"for_a", "compiled"} =>
       LET M == SelectSeq(anchorsSeen, LAMBDA a : IsLinkText(a.text))
       IN /\ urllist = [i \in 1..Len(M) |-> M[i].href]
          /\ \A i \in 1..Len(urllist) : urllist[i] # NoHref
  /\ (\E i \in 1..Len(anchorsSeen) : BrokenLink(anchorsSeen[i]))
       <=> err = "KeyError"
  /\ err = "KeyError" =>
       /\ pc = "aborted"
       /\ BrokenLink(anchorsSeen[Len(anchorsSeen)])

\* C7 witness: the list returned holds the same href twice, from the first
\* and the third anchor, the second anchor matching nothing.
C7_Witness ==
  /\ pc = "compiled"
  /\ Len(anchorsSeen) = 3
  /\ ~IsLinkText(anchorsSeen[2].text)
  /\ Len(urllist) = 2
  /\ urllist[1] = urllist[2]

\* the lists of ls, one after the other
RECURSIVE Concat(_)
Concat(ls) ==
  IF ls = <<>> THEN <<>>
  ELSE Concat(SubSeq(ls, 1, Len(ls) - 1)) \o ls[Len(ls)]

\* a record without content: the three numbers -1, address and trace ''
NoContent(c) ==
  /\ c.gender = -1
  /\ c.close_contact_id = -1
  /\ c.age = -1
  /\ c.address = <<>>
  /\ c.trace = <<>>

WithContent(l) == SelectSeq(l, LAMBDA c : ~NoContent(c))

Sorted == pc \in {"print", "write", "done"}

\* C4: the console blocks and the CSV rows are those of the records with
\* content, one each and in order, after the header; case_id plays no part,
\* and the rows number the records with content of all documents.
C4_Export ==
  pc = "done" =>
    LET keep == WithContent(all_cases)
    IN /\ stdout = [i \in 1..Len(keep) |-> str(keep[i])]
       /\ csvFile = <<CsvHeader>> \o [i \in 1..Len(keep) |-> csv(keep[i])]
       /\ Len(csvFile) - 1 = Len(WithContent(Concat(returned)))

\* C4 witness: a record without content is left out, and two records with
\* content and the same case_id, from two documents, are both written.
C4_Witness ==
  /\ pc = "done"
  /\ \E i \in 1..Len(all_cases) : NoContent(all_cases[i])
  /\ \E d \in 1..Len(returned), e \in 1..Len(returned) :
       /\ d < e
       /\ \E i \in 1..Len(returned[d]), j \in 1..Len(returned[e]) :
            /\ returned[d][i].case_id = returned[e][j].case_id
            /\ ~NoContent(returned[d][i])
            /\ ~NoContent(returned[e][j])
  /\ Len(csvFile) >= 3

\* C5: after the sort all_cases holds the merged records in ascending order
\* of case_id, the records of one case_id in their merged order (documents in
\* list order, document order within a document).
C5_StableSort ==
  Sorted =>
    LET m == Concat(returned)
    IN /\ Len(all_cases) = Len(m)
       /\ \A i \in 1..(Len(all_cases) - 1) :
            all_cases[i].case_id <= all_cases[i + 1].case_id
       /\ \A n \in 1..Len(m) :
            SelectSeq(all_cases, LAMBDA c : c.case_id = m[n].case_id)
              = SelectSeq(m, LAMBDA c : c.case_id = m[n].case_id)

\* C5 witness: the sort has moved a record, and two different records of
\* one case_id come from two documents.
C5_Witness ==
  /\ pc = "done"
  /\ all_cases # Concat(returned)
  /\ \E d \in 1..Len(returned), e \in 1..Len(returned) :
       /\ d < e
       /\ \E i \in 1..Len(returned[d]), j \in 1..Len(returned[e]) :
            /\ returned[d][i].case_id = returned[e][j].case_id
            /\ returned[d][i] # returned[e][j]

IsPrefix(a, b) == Len(a) <= Len(b) /\ a = SubSeq(b, 1, Len(a))

\* C6: the documents are loaded and extracted one at a time, the links in
\* collected order and the entry document last; output exists only when all
\* of them are done, and a run that aborts has printed and written nothing.
C6_Sequential ==
  /\ IF pc \in {"main", "for_a", "compiled"} THEN parsed = <<>>
     ELSE IsPrefix(parsed, urllist \o <<start_url>>)
  /\ Len(returned) <= Len(parsed)
  /\ Len(parsed) <= Len(returned) + 1
  /\ (Sorted \/ stdout # <<>> \/ csvFile # <<>>) =>
       /\ parsed = urllist \o <<start_url>>
       /\ Len(returned) = Len(parsed)
       /\ err = ""
  /\ pc = "aborted" => stdout = <<>> /\ csvFile = <<>>

\* C6 witness: the run aborts on the third document after two documents,
\* of two different links, gave records with content.
C6_Witness ==
  /\ pc = "aborted"
  /\ Len(returned) = 2
  /\ Len(parsed) = 3
  /\ urllist[1] # urllist[2]
  /\ WithContent(all_cases) # <<>>
  /\ stdout = <<>>
  /\ csvFile = <<>>

\* a label stands in S before any boundary node
EarlyLabel(S) ==
  \E p \in 1..Len(S) : StartsWithLabel(S[p]) /\ BoundariesUpTo(S, p) = {}

\* a label stands in S before any boundary node and a node follows it
EarlyLabelFollowed(S) ==
  \E p \in 1..(Len(S) - 1) : StartsWithLabel(S[p]) /\ BoundariesUpTo(S, p) = {}

\* C9 as stated: find_cases does not return for a document that holds a
\* label before any boundary node, wherever the label stands.
C9_Original == ~(Returned /\ EarlyLabel(spansSeen))

\* C9 amended: find_cases fails with IndexError, and the run aborts without
\* output, exactly when a label that stands before any boundary node of the
\* document is followed by another node; when that label is the last node of
\* the document find_cases returns.
C9_EarlyLabel ==
  /\ pc # "if_flag" => (EarlyLabelFollowed(spansSeen) <=> err = "IndexError")
  /\ err = "IndexError" => pc = "aborted" /\ stdout = <<>> /\ csvFile = <<>>
  /\ Returned => ~EarlyLabelFollowed(spansSeen)

\* C9 witness: IndexError in a later document, after a document that gave
\* records.
C9_Witness ==
  /\ err = "IndexError"
  /\ all_cases # <<>>
  /\ EarlyLabelFollowed(spansSeen)

\* the number of times r stands in l
Count(l, r) == Cardinality({i \in 1..Len(l) : l[i] = r})

\* the records returned so far are in all_cases as they were returned, and
\* the first node of a document finds no flag and no record
C10_Kept ==
  /\ IF Sorted
     THEN /\ Len(all_cases) = Len(Concat(returned))
          /\ \A i \in 1..Len(all_cases) :
               Count(all_cases, all_cases[i]) = Count(Concat(returned), all_cases[i])
     ELSE all_cases = Concat(returned)
  /\ (pc = "if_flag" /\ Len(spansSeen) = 1) => ~flag /\ cases = <<>>
  /\ (pc = "if_case" /\ Len(spansSeen) = 1) => ~traced /\ cases = <<>>

\* lines 86-88 change at most the trace of the last record of cases
C10_TraceStep ==
  pc = "if_flag" =>
    /\ all_cases' = all_cases
    /\ returned' = returned
    /\ Len(cases') = Len(cases)
    /\ \A i \in 1..Len(cases) :
         IF i < Len(cases) THEN cases'[i] = cases[i]
         ELSE cases'[i] = [cases[i] EXCEPT !.trace = cases'[i].trace]

\* C10: no record of a returned list is changed by a later document, the
\* sort or the export; flag and list start afresh in every document, so the
\* first node of a document is never taken as a trace, and a trace
\* assignment changes the trace of the last record of the current list only.
C10_Immutable == []C10_Kept /\ [][C10_TraceStep]_vars

\* C10 witness: the previous document gave records and ended on a label, and
\* the first node of the next document has passed line 86 untouched.
C10_Witness ==
  /\ pc = "if_case"
  /\ Len(spansSeen) = 1
  /\ prevFlag
  /\ ~traced
  /\ returned # <<>>
  /\ returned[Len(returned)] # <<>>

====
